---- MODULE Spec2Model ----
(***************************************************************************)
(* Model of the continuation-style task scheduler of                       *)
(* ic-stable-structures/src/task/mod.rs: Scheduler::add_task,              *)
(* Scheduler::run, execute_sync_task and execute_async_task over one       *)
(* queue of tasks guarded by one non-reentrant mutex.                      *)
(*                                                                         *)
(* Threads of control are the caller contexts (which call add_task and     *)
(* run) and the futures detached by ic_cdk::spawn.  A step that needs the  *)
(* mutex is split at the acquisition, which is the only place a thread can *)
(* block.  The MutexGuard created in the scrutinee of run's `while let` is *)
(* a temporary of that scrutinee: it is dropped at the end of the loop     *)
(* body, so run owns the mutex from the peek to the end of the iteration.  *)
(***************************************************************************)
EXTENDS Naturals, Sequences, FiniteSets

\* Capacity of the durable region behind the queue: a push on a full queue
\* fails with a storage error.
Capacity == 3
\* Length at which a context's dispatch log stops growing.
MaxLog == 3
\* Number of detached futures that can be pending at once.
MaxFutures == 2

None == "None"
Free == <<"free", 0>>

\* Work units used as tasks: the synchronous chain T1 -> T2 -> T3 -> none,
\* an asynchronous unit A1 that yields T3 and an asynchronous unit A2 that
\* yields nothing.
Tasks == {"T1", "T2", "T3", "A1", "A2"}

\* The tasks producers hand to add_task; T2 only arises as T1's continuation.
Inputs == Tasks \ {"T2"}

Ctx == {<<"c", 1>>, <<"c", 2>>}
FutIds == {<<"f", i>> : i \in 1..MaxFutures}
Threads == Ctx \cup FutIds

VARIABLES
    pending_tasks, \* the tasks in the queue, index 0 first
    guard,      \* the thread that owns the MutexGuard of the queue, or Free
    pc,         \* position of every thread
    task,       \* the task a thread works on: argument, peeked task or continuation
    op,         \* the call a context made last: add_task(None), add_task(Some) or run
    result,     \* what that operation returned: "none" while it has not returned
    dlog,       \* the tasks a context's current run has dispatched, in order
    dispatched, \* the queue positions (1-based) that were ever dispatched
    pushlog,    \* every push that returned Ok, in order: who pushed, and what
    how,        \* how a context's current run dispatched last: "inline" or "spawn"
    yields,     \* number of dispatched units whose execute yielded a continuation
    resolved    \* number of dispatched Async units whose suspension has resolved

vars == <<pending_tasks, guard, pc, task, op, result, dlog, dispatched, pushlog,
         how, yields, resolved>>

\* Task::Sync or Task::Async
Kind(t) == IF t \in {"A1", "A2"} THEN "Async" ELSE "Sync"

\* What execute of the unit yields: the next task, or None.
execute(t) ==
    CASE t = "T1" -> "T2"
      [] t = "T2" -> "T3"
      [] t = "A1" -> "T3"
      [] OTHER -> None

\* VecStructure::get: read without removal.
get(q, i) == IF i < Len(q) THEN q[i + 1] ELSE None

\* VecStructure::push: append at the tail.
push(q, t) == Append(q, t)

\* A push can succeed only while the region has room.
CanPush(q) == Len(q) < Capacity

IsPrefix(s, t) == Len(s) <= Len(t) /\ SubSeq(t, 1, Len(s)) = s

Log(l, t) == IF Len(l) < MaxLog THEN Append(l, t) ELSE l

\* A counter goes up by one when b holds; it stops at Capacity, which no
\* number of pushes that returned Ok exceeds.
Inc(n, b) == IF b /\ n < Capacity THEN n + 1 ELSE n

\* The free future slot of lowest index.
FreeSlots == {f \in FutIds : pc[f] = "free"}
NewFut == CHOOSE f \in FreeSlots : \A g \in FreeSlots : f[2] <= g[2]

Init ==
    /\ pending_tasks = <<>>
    /\ guard = Free
    /\ pc = [th \in Threads |-> IF th \in Ctx THEN "idle" ELSE "free"]
    /\ task = [th \in Threads |-> None]
    /\ op = [c \in Ctx |-> "none"]
    /\ result = [c \in Ctx |-> "none"]
    /\ dlog = [c \in Ctx |-> <<>>]
    /\ dispatched = {}
    /\ pushlog = <<>>
    /\ how = [c \in Ctx |-> "none"]
    /\ yields = 0
    /\ resolved = 0

\* add_task without the presence check: None goes on to the push as well.
add_task_unchecked(c, t) ==
    /\ pc[c] = "idle"
    /\ op' = [op EXCEPT ![c] = IF t = None THEN "add_task(None)" ELSE "add_task(Some)"]
    /\ task' = [task EXCEPT ![c] = t]
    /\ result' = [result EXCEPT ![c] = "none"]
    /\ pc' = [pc EXCEPT ![c] = "add_lock"]
    /\ UNCHANGED <<pending_tasks, guard, dlog, dispatched, pushlog>>
    /\ UNCHANGED <<how, yields, resolved>>

\* Scheduler::add_task up to its push: None returns Ok at once, Some(t) goes
\* on to lock the queue.
add_task(c, t) ==
    /\ pc[c] = "idle"
    /\ op' = [op EXCEPT ![c] = IF t = None THEN "add_task(None)" ELSE "add_task(Some)"]
    /\ task' = [task EXCEPT ![c] = t]
    /\ IF t = None
         THEN /\ result' = [result EXCEPT ![c] = "Ok"]
              /\ pc' = pc
         ELSE /\ result' = [result EXCEPT ![c] = "none"]
              /\ pc' = [pc EXCEPT ![c] = "add_lock"]
    /\ UNCHANGED <<pending_tasks, guard, dlog, dispatched, pushlog>>
    /\ UNCHANGED <<how, yields, resolved>>

\* pending_tasks.lock(): blocks until the mutex is free; the mutex is not
\* reentrant, so a thread that owns it blocks on itself.
lock(th) ==
    /\ pc[th] \in {"add_lock", "run_lock", "cont_lock"}
    /\ guard = Free
    /\ guard' = th
    /\ pc' = [pc EXCEPT ![th] = CASE pc[th] = "add_lock" -> "add_push"
                                  [] pc[th] = "run_lock" -> "run_peek"
                                  [] OTHER -> "cont_push"]
    /\ UNCHANGED <<pending_tasks, task, op, result, dlog, dispatched, pushlog>>
    /\ UNCHANGED <<how, yields, resolved>>

\* add_task that drops the result of its push and returns Ok.
add_task_push_ignores_error(c, ok) ==
    /\ pc[c] = "add_push"
    /\ guard = c
    /\ ok => CanPush(pending_tasks)
    /\ pending_tasks' = IF ok THEN push(pending_tasks, task[c]) ELSE pending_tasks
    /\ pushlog' = IF ok THEN Append(pushlog, <<"add_task", task[c]>>) ELSE pushlog
    /\ result' = [result EXCEPT ![c] = "Ok"]
    /\ guard' = Free
    /\ pc' = [pc EXCEPT ![c] = "idle"]
    /\ task' = [task EXCEPT ![c] = None]
    /\ UNCHANGED <<op, dlog, dispatched>>
    /\ UNCHANGED <<how, yields, resolved>>

\* add_task whose push writes over the last slot of a queue that holds
\* tasks, instead of appending behind it.
add_task_push_overwrites(c, ok) ==
    /\ pc[c] = "add_push"
    /\ guard = c
    /\ ok => CanPush(pending_tasks)
    /\ pending_tasks' = IF ~ok THEN pending_tasks
                ELSE IF pending_tasks = <<>> THEN push(pending_tasks, task[c])
                ELSE [pending_tasks EXCEPT ![Len(pending_tasks)] = task[c]]
    /\ pushlog' = IF ok THEN Append(pushlog, <<"add_task", task[c]>>) ELSE pushlog
    /\ result' = [result EXCEPT ![c] = IF ok THEN "Ok" ELSE "Err"]
    /\ guard' = Free
    /\ pc' = [pc EXCEPT ![c] = "idle"]
    /\ task' = [task EXCEPT ![c] = None]
    /\ UNCHANGED <<op, dlog, dispatched>>
    /\ UNCHANGED <<how, yields, resolved>>

\* The push of add_task: its result is add_task's result, the guard is
\* dropped on return.
add_task_push(c, ok) ==
    /\ pc[c] = "add_push"
    /\ guard = c
    /\ ok => CanPush(pending_tasks)
    /\ pending_tasks' = IF ok THEN push(pending_tasks, task[c]) ELSE pending_tasks
    /\ pushlog' = IF ok THEN Append(pushlog, <<"add_task", task[c]>>) ELSE pushlog
    /\ result' = [result EXCEPT ![c] = IF ok THEN "Ok" ELSE "Err"]
    /\ guard' = Free
    /\ pc' = [pc EXCEPT ![c] = "idle"]
    /\ task' = [task EXCEPT ![c] = None]
    /\ UNCHANGED <<op, dlog, dispatched>>
    /\ UNCHANGED <<how, yields, resolved>>

\* Scheduler::run is called.
run(c) ==
    /\ pc[c] = "idle"
    /\ op' = [op EXCEPT ![c] = "run"]
    /\ result' = [result EXCEPT ![c] = "none"]
    /\ task' = [task EXCEPT ![c] = None]
    /\ dlog' = [dlog EXCEPT ![c] = <<>>]
    /\ pc' = [pc EXCEPT ![c] = "run_lock"]
    /\ UNCHANGED <<pending_tasks, guard, dispatched, pushlog>>
    /\ how' = [how EXCEPT ![c] = "none"]
    /\ UNCHANGED <<yields, resolved>>

\* A loop head that treats a front task some run has already dispatched like
\* an empty queue.
PeekSkipsDispatched(c) ==
    /\ pc[c] = "run_peek"
    /\ guard = c
    /\ IF get(pending_tasks, 0) = None \/ 1 \in dispatched
         THEN /\ guard' = Free
              /\ result' = [result EXCEPT ![c] = "Ok"]
              /\ pc' = [pc EXCEPT ![c] = "idle"]
              /\ task' = task
         ELSE /\ guard' = guard
              /\ result' = result
              /\ pc' = [pc EXCEPT ![c] = "run_dispatch"]
              /\ task' = [task EXCEPT ![c] = get(pending_tasks, 0)]
    /\ UNCHANGED <<pending_tasks, op, dlog, dispatched, pushlog>>
    /\ UNCHANGED <<how, yields, resolved>>

\* A loop head that waits until no detached unit is outstanding.
PeekAwaitsFutures(c) ==
    /\ pc[c] = "run_peek"
    /\ guard = c
    /\ \A f \in FutIds : pc[f] = "free"
    /\ IF get(pending_tasks, 0) = None
         THEN /\ guard' = Free
              /\ result' = [result EXCEPT ![c] = "Ok"]
              /\ pc' = [pc EXCEPT ![c] = "idle"]
              /\ task' = task
         ELSE /\ guard' = guard
              /\ result' = result
              /\ pc' = [pc EXCEPT ![c] = "run_dispatch"]
              /\ task' = [task EXCEPT ![c] = get(pending_tasks, 0)]
    /\ UNCHANGED <<pending_tasks, op, dlog, dispatched, pushlog>>
    /\ UNCHANGED <<how, yields, resolved>>

\* A loop head that reports an empty queue as an error.
PeekEmptyIsError(c) ==
    /\ pc[c] = "run_peek"
    /\ guard = c
    /\ IF get(pending_tasks, 0) = None
         THEN /\ guard' = Free
              /\ result' = [result EXCEPT ![c] = "Err"]
              /\ pc' = [pc EXCEPT ![c] = "idle"]
              /\ task' = task
         ELSE /\ guard' = guard
              /\ result' = result
              /\ pc' = [pc EXCEPT ![c] = "run_dispatch"]
              /\ task' = [task EXCEPT ![c] = get(pending_tasks, 0)]
    /\ UNCHANGED <<pending_tasks, op, dlog, dispatched, pushlog>>
    /\ UNCHANGED <<how, yields, resolved>>

\* A loop head that also leaves when one task is left.
PeekLeavesEarly(c) ==
    /\ pc[c] = "run_peek"
    /\ guard = c
    /\ IF get(pending_tasks, 1) = None
         THEN /\ guard' = Free
              /\ result' = [result EXCEPT ![c] = "Ok"]
              /\ pc' = [pc EXCEPT ![c] = "idle"]
              /\ task' = task
         ELSE /\ guard' = guard
              /\ result' = result
              /\ pc' = [pc EXCEPT ![c] = "run_dispatch"]
              /\ task' = [task EXCEPT ![c] = get(pending_tasks, 0)]
    /\ UNCHANGED <<pending_tasks, op, dlog, dispatched, pushlog>>
    /\ UNCHANGED <<how, yields, resolved>>

\* A loop head that takes the front task out of the queue.
PeekRemoves(c) ==
    /\ pc[c] = "run_peek"
    /\ guard = c
    /\ IF get(pending_tasks, 0) = None
         THEN /\ guard' = Free
              /\ result' = [result EXCEPT ![c] = "Ok"]
              /\ pc' = [pc EXCEPT ![c] = "idle"]
              /\ task' = task
              /\ pending_tasks' = pending_tasks
         ELSE /\ guard' = guard
              /\ result' = result
              /\ pc' = [pc EXCEPT ![c] = "run_dispatch"]
              /\ task' = [task EXCEPT ![c] = get(pending_tasks, 0)]
              /\ pending_tasks' = Tail(pending_tasks)
    /\ UNCHANGED <<op, dlog, dispatched, pushlog>>
    /\ UNCHANGED <<how, yields, resolved>>

\* The head of run's loop: get(0) under the guard.  None ends the loop, the
\* guard is dropped and run returns Ok; a task enters the loop body with the
\* guard alive.
Peek(c) ==
    /\ pc[c] = "run_peek"
    /\ guard = c
    /\ IF get(pending_tasks, 0) = None
         THEN /\ guard' = Free
              /\ result' = [result EXCEPT ![c] = "Ok"]
              /\ pc' = [pc EXCEPT ![c] = "idle"]
              /\ task' = task
         ELSE /\ guard' = guard
              /\ result' = result
              /\ pc' = [pc EXCEPT ![c] = "run_dispatch"]
              /\ task' = [task EXCEPT ![c] = get(pending_tasks, 0)]
    /\ UNCHANGED <<pending_tasks, op, dlog, dispatched, pushlog>>
    /\ UNCHANGED <<how, yields, resolved>>

\* A dispatch that runs the unit inline on the caller whatever its variant.
execute_sync_task_any_variant(c) ==
    /\ pc[c] = "run_dispatch"
    /\ dlog' = [dlog EXCEPT ![c] = Log(dlog[c], task[c])]
    /\ dispatched' = dispatched \cup {1}
    /\ IF execute(task[c]) = None
         THEN /\ guard' = Free
              /\ pc' = [pc EXCEPT ![c] = "run_lock"]
              /\ task' = [task EXCEPT ![c] = None]
         ELSE /\ guard' = guard
              /\ pc' = [pc EXCEPT ![c] = "cont_lock"]
              /\ task' = [task EXCEPT ![c] = execute(task[c])]
    /\ UNCHANGED <<pending_tasks, op, result, pushlog>>
    /\ how' = [how EXCEPT ![c] = "inline"]
    /\ yields' = Inc(yields, execute(task[c]) # None)
    /\ resolved' = resolved

\* The Sync arm and execute_sync_task: execute runs on the caller; without a
\* continuation the iteration ends and the guard of the peek is dropped, with
\* one the helper locks the queue to push it.
execute_sync_task(c) ==
    /\ pc[c] = "run_dispatch"
    /\ Kind(task[c]) = "Sync"
    /\ dlog' = [dlog EXCEPT ![c] = Log(dlog[c], task[c])]
    /\ dispatched' = dispatched \cup {1}
    /\ IF execute(task[c]) = None
         THEN /\ guard' = Free
              /\ pc' = [pc EXCEPT ![c] = "run_lock"]
              /\ task' = [task EXCEPT ![c] = None]
         ELSE /\ guard' = guard
              /\ pc' = [pc EXCEPT ![c] = "cont_lock"]
              /\ task' = [task EXCEPT ![c] = execute(task[c])]
    /\ UNCHANGED <<pending_tasks, op, result, pushlog>>
    /\ how' = [how EXCEPT ![c] = "inline"]
    /\ yields' = Inc(yields, execute(task[c]) # None)
    /\ resolved' = resolved

\* An Async arm whose detached future does not await its unit: it goes on
\* to push the continuation although the unit has not resolved.
execute_async_task_skips_await(c, ready) ==
    /\ pc[c] = "run_dispatch"
    /\ Kind(task[c]) = "Async"
    /\ ~ready => FreeSlots # {}
    /\ dlog' = [dlog EXCEPT ![c] = Log(dlog[c], task[c])]
    /\ dispatched' = dispatched \cup {1}
    /\ IF ~ready
         THEN /\ guard' = Free
              /\ pc' = [pc EXCEPT ![c] = "run_lock",
                                  ![NewFut] = IF execute(task[c]) = None THEN "pending"
                                              ELSE "cont_lock"]
              /\ task' = [task EXCEPT ![c] = None,
                                      ![NewFut] = IF execute(task[c]) = None THEN task[c]
                                                  ELSE execute(task[c])]
         ELSE IF execute(task[c]) = None
         THEN /\ guard' = Free
              /\ pc' = [pc EXCEPT ![c] = "run_lock"]
              /\ task' = [task EXCEPT ![c] = None]
         ELSE /\ guard' = guard
              /\ pc' = [pc EXCEPT ![c] = "cont_lock"]
              /\ task' = [task EXCEPT ![c] = execute(task[c])]
    /\ UNCHANGED <<pending_tasks, op, result, pushlog>>
    /\ how' = [how EXCEPT ![c] = "spawn"]
    /\ yields' = Inc(yields, execute(task[c]) # None)
    /\ resolved' = Inc(resolved, ready)

\* An Async arm that pushes the continuation when it detaches the unit,
\* before the unit has resolved.
execute_async_task_pushes_early(c, ready) ==
    /\ pc[c] = "run_dispatch"
    /\ Kind(task[c]) = "Async"
    /\ ~ready => FreeSlots # {}
    /\ dlog' = [dlog EXCEPT ![c] = Log(dlog[c], task[c])]
    /\ dispatched' = dispatched \cup {1}
    /\ IF ~ready
         THEN /\ guard' = Free
              /\ pc' = [pc EXCEPT ![c] = "run_lock", ![NewFut] = "pending"]
              /\ task' = [task EXCEPT ![c] = None, ![NewFut] = task[c]]
              /\ pending_tasks' = IF execute(task[c]) # None /\ CanPush(pending_tasks)
                          THEN push(pending_tasks, execute(task[c])) ELSE pending_tasks
         ELSE IF execute(task[c]) = None
         THEN /\ guard' = Free
              /\ pc' = [pc EXCEPT ![c] = "run_lock"]
              /\ task' = [task EXCEPT ![c] = None]
              /\ pending_tasks' = pending_tasks
         ELSE /\ guard' = guard
              /\ pc' = [pc EXCEPT ![c] = "cont_lock"]
              /\ task' = [task EXCEPT ![c] = execute(task[c])]
              /\ pending_tasks' = pending_tasks
    /\ UNCHANGED <<op, result, pushlog>>
    /\ how' = [how EXCEPT ![c] = "spawn"]
    /\ yields' = Inc(yields, ready /\ execute(task[c]) # None)
    /\ resolved' = Inc(resolved, ready)

\* The Async arm and execute_async_task: spawn polls the new future once on
\* the caller.  A unit that is still pending is detached and the iteration
\* ends; a unit that is ready at once goes on like the Sync arm.
execute_async_task(c, ready) ==
    /\ pc[c] = "run_dispatch"
    /\ Kind(task[c]) = "Async"
    /\ ~ready => FreeSlots # {}
    /\ dlog' = [dlog EXCEPT ![c] = Log(dlog[c], task[c])]
    /\ dispatched' = dispatched \cup {1}
    /\ IF ~ready
         THEN /\ guard' = Free
              /\ pc' = [pc EXCEPT ![c] = "run_lock", ![NewFut] = "pending"]
              /\ task' = [task EXCEPT ![c] = None, ![NewFut] = task[c]]
         ELSE IF execute(task[c]) = None
         THEN /\ guard' = Free
              /\ pc' = [pc EXCEPT ![c] = "run_lock"]
              /\ task' = [task EXCEPT ![c] = None]
         ELSE /\ guard' = guard
              /\ pc' = [pc EXCEPT ![c] = "cont_lock"]
              /\ task' = [task EXCEPT ![c] = execute(task[c])]
    /\ UNCHANGED <<pending_tasks, op, result, pushlog>>
    /\ how' = [how EXCEPT ![c] = "spawn"]
    /\ yields' = Inc(yields, ready /\ execute(task[c]) # None)
    /\ resolved' = Inc(resolved, ready)

\* A resumed future that pushes in any case: the continuation if there is
\* one, the unit itself if there is none.
Resolve_always_pushes(f) ==
    /\ pc[f] = "pending"
    /\ pc' = [pc EXCEPT ![f] = "cont_lock"]
    /\ task' = [task EXCEPT ![f] = IF execute(task[f]) = None THEN task[f]
                                    ELSE execute(task[f])]
    /\ UNCHANGED <<pending_tasks, guard, op, result, dlog, dispatched, pushlog>>
    /\ yields' = Inc(yields, execute(task[f]) # None)
    /\ resolved' = Inc(resolved, TRUE)
    /\ how' = how

\* The host runtime resumes a detached future whose unit has resolved: with
\* a continuation it locks the queue to push it, without one it is finished.
Resolve(f) ==
    /\ pc[f] = "pending"
    /\ IF execute(task[f]) = None
         THEN /\ pc' = [pc EXCEPT ![f] = "free"]
              /\ task' = [task EXCEPT ![f] = None]
         ELSE /\ pc' = [pc EXCEPT ![f] = "cont_lock"]
              /\ task' = [task EXCEPT ![f] = execute(task[f])]
    /\ UNCHANGED <<pending_tasks, guard, op, result, dlog, dispatched, pushlog>>
    /\ yields' = Inc(yields, execute(task[f]) # None)
    /\ resolved' = Inc(resolved, TRUE)
    /\ how' = how

\* A helper that keeps the continuation after a failed push and tries the
\* push again instead of dropping its result.
ContPush_retries(th, ok) ==
    /\ pc[th] = "cont_push"
    /\ guard = th
    /\ ok => CanPush(pending_tasks)
    /\ pending_tasks' = IF ok THEN push(pending_tasks, task[th]) ELSE pending_tasks
    /\ pushlog' = IF ok THEN Append(pushlog, <<"continuation", task[th]>>) ELSE pushlog
    /\ guard' = Free
    /\ pc' = [pc EXCEPT ![th] = IF ~ok THEN "cont_lock"
                                ELSE IF th \in Ctx THEN "run_lock" ELSE "free"]
    /\ task' = [task EXCEPT ![th] = IF ok THEN None ELSE task[th]]
    /\ UNCHANGED <<op, result, dlog, dispatched>>
    /\ UNCHANGED <<how, yields, resolved>>

\* The push of a continuation in a dispatch helper: its result is dropped.
\* In a future the future is finished; on a caller the helper returns and
\* the iteration of run ends.
ContPush(th, ok) ==
    /\ pc[th] = "cont_push"
    /\ guard = th
    /\ ok => CanPush(pending_tasks)
    /\ pending_tasks' = IF ok THEN push(pending_tasks, task[th]) ELSE pending_tasks
    /\ pushlog' = IF ok THEN Append(pushlog, <<"continuation", task[th]>>) ELSE pushlog
    /\ guard' = Free
    /\ pc' = [pc EXCEPT ![th] = IF th \in Ctx THEN "run_lock" ELSE "free"]
    /\ task' = [task EXCEPT ![th] = None]
    /\ UNCHANGED <<op, result, dlog, dispatched>>
    /\ UNCHANGED <<how, yields, resolved>>

Next ==
    \/ \E c \in Ctx, t \in Inputs \cup {None} : add_task(c, t)
    \/ \E th \in Threads : lock(th)
    \/ \E c \in Ctx, ok \in BOOLEAN : add_task_push(c, ok)
    \/ \E c \in Ctx : run(c)
    \/ \E c \in Ctx : Peek(c)
    \/ \E c \in Ctx : execute_sync_task(c)
    \/ \E c \in Ctx, ready \in BOOLEAN : execute_async_task(c, ready)
    \/ \E f \in FutIds : Resolve(f)
    \/ \E th \in Threads, ok \in BOOLEAN : ContPush(th, ok)

Spec == Init /\ [][Next]_vars

\* A thread inside add_task, run or a resumed future keeps running: every
\* step of the code that is enabled for good is taken, and a thread that
\* waits for the mutex gets it if it is free again and again (parking_lot's
\* mutex is eventually fair).  Calls of add_task and run, and the resolution
\* of a unit, are up to the environment.
StepOf(th) ==
    \/ \E ok \in BOOLEAN : add_task_push(th, ok)
    \/ Peek(th)
    \/ execute_sync_task(th)
    \/ \E ready \in BOOLEAN : execute_async_task(th, ready)
    \/ \E ok \in BOOLEAN : ContPush(th, ok)

FairSpec == Spec /\ \A th \in Threads : WF_vars(StepOf(th)) /\ SF_vars(lock(th))

----
\* Claims about the scheduler.

Chain == <<"T1", "T2", "T3">>
InRun(c) == op[c] = "run" /\ pc[c] # "idle"
\* No thread but c is inside an operation or a detached future.
Quiet(c) == \A th \in Threads \ {c} : pc[th] \in {"idle", "free"}

\* C1: with a queue holding exactly one Sync task whose execute returns no
\* continuation (T3), a call of run dispatches that task exactly once (and
\* then returns): while the queue is <<T3>>, no run has dispatched more than
\* once.
C1_SingleSyncTaskDispatchedOnce ==
    pending_tasks = <<"T3">> => \A c \in Ctx : Len(dlog[c]) <= 1

\* C2: for the chain T1 -> T2 -> T3 -> none, with only T1 enqueued, one call
\* of run by c (nothing else going on) dispatches T1, T2 and T3 once each, in
\* that order: the run's dispatch log gets to be <<T1, T2, T3>>.
C2_ChainDispatchedInOrder ==
    \A c \in Ctx :
        [](  (InRun(c) /\ pc[c] = "run_lock" /\ dlog[c] = <<>>
                /\ pending_tasks = <<"T1">> /\ Quiet(c))
          => <>(dlog[c] = Chain \/ ~Quiet(c)))

\* C3: run holds the queue lock for one queue operation only: the guard of
\* the get(0) peek is released before the peeked task is dispatched, so a
\* caller that dispatches, or that is about to push a continuation from a
\* dispatch helper, does not own the lock.
C3_LockHeldForOneOperation ==
    \A c \in Ctx : pc[c] \in {"run_dispatch", "cont_lock"} => guard # c

\* The step is a call add_task(None) by context c (a call that repeats the
\* context's last call and result changes nothing and is no step).
IsAddNone(c) ==
    /\ pc[c] = "idle"
    /\ op[c] # "add_task(None)"
    /\ op'[c] = "add_task(None)"

\* C4: add_task(None) is a no-op: it returns success, pushes nothing and
\* leaves the queue (and its lock) as they are.
C4_AddNoneIsNoOp ==
    /\ [][\A c \in Ctx : IsAddNone(c) =>
            /\ pending_tasks' = pending_tasks
            /\ pushlog' = pushlog
            /\ guard' = guard
            /\ pc'[c] = "idle"
            /\ result'[c] = "Ok"]_vars
    /\ [](\A c \in Ctx : op[c] = "add_task(None)" => pc[c] = "idle" /\ result[c] = "Ok")

\* add_task(None) has returned on a queue that holds tasks.
C4_Witness ==
    \E c \in Ctx :
        /\ op[c] = "add_task(None)"
        /\ pc[c] = "idle"
        /\ result[c] = "Ok"
        /\ Len(pending_tasks) >= 2

\* The step is the return of add_task(Some(t)) in context c.
IsAddSomeReturn(c) == pc[c] = "add_push" /\ pc'[c] = "idle"

\* C5: add_task(Some(t)) pushes t once at the tail and returns the result of
\* that push: on Ok the queue is the old queue with t appended, on a storage
\* error add_task returns the error and the queue is unchanged.
C5_AddSomePushesOnce ==
    /\ [][\A c \in Ctx : IsAddSomeReturn(c) =>
            \/ /\ result'[c] = "Ok"
               /\ pending_tasks' = Append(pending_tasks, task[c])
               /\ pushlog' = Append(pushlog, <<"add_task", task[c]>>)
            \/ /\ result'[c] = "Err"
               /\ pending_tasks' = pending_tasks
               /\ pushlog' = pushlog]_vars
    /\ [][\A c \in Ctx : (IsAddSomeReturn(c) /\ ~CanPush(pending_tasks)) => result'[c] = "Err"]_vars
    /\ [](\A c \in Ctx : op[c] = "add_task(Some)" =>
            /\ pc[c] \in {"add_lock", "add_push"} => task[c] \in Tasks /\ result[c] = "none"
            /\ pc[c] = "idle" => result[c] \in {"Ok", "Err"})

\* One add_task(Some) has returned Ok and another one the storage error of a
\* full queue.
C5_Witness ==
    \E c, d \in Ctx :
        /\ op[c] = "add_task(Some)" /\ pc[c] = "idle" /\ result[c] = "Ok"
        /\ op[d] = "add_task(Some)" /\ pc[d] = "idle" /\ result[d] = "Err"
        /\ Len(pending_tasks) = Capacity
        /\ pushlog[Capacity][1] = "add_task"

\* C6: execution order is FIFO: a task is dispatched for the first time only
\* after every task appended before it, and every task in the queue is
\* eventually dispatched by a run in progress.
C6_FifoDispatch ==
    /\ [][\A j \in dispatched' \ dispatched : \A i \in 1..(j - 1) : i \in dispatched]_vars
    /\ \A i \in 1..Capacity :
          []((Len(pending_tasks) >= i /\ \E c \in Ctx : InRun(c)) => <>(i \in dispatched))

\* C7: concurrent add_task calls never lose a task: the queue holds exactly
\* the tasks of the pushes that returned Ok, each once, in the order of the
\* pushes, so k successful add_task calls make it k longer.
C7_NoTaskLost ==
    /\ Len(pending_tasks) = Len(pushlog)
    /\ \A i \in 1..Len(pushlog) : pending_tasks[i] = pushlog[i][2]

\* Both contexts are inside add_task(Some) at once, one owning the lock and
\* one waiting for it, after two add_task calls have already succeeded.
C7_Witness ==
    \E c, d \in Ctx :
        /\ pc[c] = "add_push" /\ guard = c
        /\ pc[d] = "add_lock"
        /\ Len(pushlog) >= 2
        /\ \A i \in 1..Len(pushlog) : pushlog[i][1] = "add_task"

\* C8: the continuation of an Async task is pushed only after its unit has
\* resolved, and run does not wait for that: the step that detaches a
\* pending unit pushes nothing and takes run to the head of its next
\* iteration with the lock released; the step that resolves a unit pushes
\* nothing; and every continuation push is made by the owner of the lock
\* that has finished executing its unit.
C8_AsyncPushAfterResolve ==
    /\ [][\A f \in FutIds : (pc[f] = "free" /\ pc'[f] = "pending") =>
            /\ pending_tasks' = pending_tasks
            /\ \E c \in Ctx : /\ pc[c] = "run_dispatch" /\ pc'[c] = "run_lock"
                              /\ Kind(task[c]) = "Async" /\ task'[f] = task[c]
                              /\ guard = c /\ guard' = Free]_vars
    /\ [][\A f \in FutIds : (pc[f] = "pending" /\ pc'[f] # "pending") =>
            /\ pending_tasks' = pending_tasks
            /\ pc'[f] = IF execute(task[f]) = None THEN "free" ELSE "cont_lock"]_vars
    /\ [][pending_tasks' # pending_tasks =>
            /\ guard \in Threads
            /\ pc[guard] \in {"add_push", "cont_push"}
            /\ pending_tasks' = Append(pending_tasks, task[guard])]_vars
    /\ [](\A f \in FutIds : pc[f] = "pending" => Kind(task[f]) = "Async")

\* A run is in a later iteration of its loop while a unit it detached is
\* still pending, and the continuation of another detached unit has been
\* pushed after that unit resolved.
C8_Witness ==
    \E c \in Ctx, f \in FutIds :
        /\ InRun(c) /\ pc[c] = "run_dispatch" /\ Len(dlog[c]) >= 2
        /\ pc[f] = "pending"
        /\ \E i \in 1..Len(pushlog) : pushlog[i][1] = "continuation"

\* C9: run leaves its loop exactly when get(0) returns none: a run returns
\* only from a peek that found the queue empty, a peek that finds a task
\* does not return, and run returns Ok.
C9_RunReturnsOnEmpty ==
    /\ [][\A c \in Ctx : (InRun(c) /\ pc'[c] = "idle") =>
            /\ pc[c] = "run_peek"
            /\ pending_tasks = <<>>
            /\ pending_tasks' = <<>>
            /\ result'[c] = "Ok"]_vars
    /\ [][\A c \in Ctx : (pc[c] = "run_peek" /\ pc'[c] # "run_peek") =>
            ((pc'[c] = "idle") <=> (pending_tasks = <<>>))]_vars
    /\ [](\A c \in Ctx : op[c] = "run" =>
            IF pc[c] = "idle" THEN result[c] = "Ok" ELSE result[c] = "none")

\* A run has returned Ok while the other context was waiting to push.
C9_Witness ==
    \E c, d \in Ctx :
        /\ op[c] = "run" /\ pc[c] = "idle" /\ result[c] = "Ok"
        /\ pc[d] = "add_lock"
        /\ pending_tasks = <<>>

\* C10: no operation removes or reorders a queue element: in every step the
\* queue before is a prefix of the queue after, so its length never
\* decreases and its front, once there, never changes.
C10_QueueOnlyGrows ==
    [][/\ IsPrefix(pending_tasks, pending_tasks')
       /\ Len(pending_tasks') <= Len(pending_tasks) + 1
       /\ pending_tasks # <<>> => get(pending_tasks', 0) = get(pending_tasks, 0)]_vars

\* A run has dispatched more than once over a queue of several tasks that
\* all yield no continuation, and all of them are still queued.
C10_Witness ==
    \E c \in Ctx :
        /\ InRun(c) /\ Len(dlog[c]) >= 2
        /\ Len(pending_tasks) = Capacity
        /\ \A i \in 1..Len(pending_tasks) :
              execute(pending_tasks[i]) = None /\ pushlog[i][1] = "add_task"

\* The number of pushes by who ("add_task" or "continuation") that returned Ok.
Pushes(who) == Cardinality({i \in 1..Len(pushlog) : pushlog[i][1] = who})
\* The threads that hold a continuation they have not pushed yet.
Holders == {th \in Threads : pc[th] \in {"cont_lock", "cont_push"}}
\* The step is a push of a continuation by th that returned an error.
IsFailedContPush(th) ==
    /\ pc[th] = "cont_push"
    /\ pc'[th] # "cont_push"
    /\ pending_tasks' = pending_tasks

\* C11: a push failure while a dispatch helper re-enqueues a continuation is
\* absorbed: the continuation is dropped and not queued, no caller's result
\* or call changes, the helper finishes (a future is done, a caller goes to
\* the head of run's loop), every other thread stays where it is, a push on
\* a full queue is such a failure, and run never returns an error.
C11_HelperPushFailureAbsorbed ==
    /\ [][\A th \in Threads : IsFailedContPush(th) =>
            /\ pushlog' = pushlog
            /\ result' = result
            /\ op' = op
            /\ task'[th] = None
            /\ guard' = Free
            /\ pc'[th] = IF th \in Ctx THEN "run_lock" ELSE "free"
            /\ \A o \in Threads \ {th} : pc'[o] = pc[o] /\ task'[o] = task[o]]_vars
    /\ [][\A th \in Threads :
            (pc[th] = "cont_push" /\ pc'[th] # "cont_push" /\ ~CanPush(pending_tasks))
                => pending_tasks' = pending_tasks]_vars
    /\ [](\A c \in Ctx : op[c] = "run" => result[c] # "Err")

\* A continuation push has failed (more continuations were yielded than were
\* pushed or are still held) on a queue that is not full, and a run is
\* nevertheless dispatching in a later iteration with no error anywhere.
C11_Witness ==
    /\ yields > Pushes("continuation") + Cardinality(Holders)
    /\ Len(pending_tasks) < Capacity
    /\ \E c \in Ctx : InRun(c) /\ pc[c] = "run_dispatch" /\ Len(dlog[c]) >= 2
    /\ \A c \in Ctx : result[c] # "Err"

\* C12: nothing keeps a task from being dispatched twice: a run at its peek
\* owns the lock and, whenever the queue holds a task, the peek hands it the
\* front task to dispatch, whether or not that task has been dispatched
\* before (by this run or by another one), and a run that holds a peeked
\* task can always dispatch it.
C12_DuplicateDispatchPossible ==
    \A c \in Ctx :
        /\ (pc[c] = "run_peek" /\ pending_tasks # <<>>) =>
              /\ guard = c
              /\ ENABLED (Peek(c) /\ pc'[c] = "run_dispatch" /\ task'[c] = pending_tasks[1])
        /\ pc[c] = "run_dispatch" =>
              ENABLED (execute_sync_task(c) \/ \E ready \in BOOLEAN : execute_async_task(c, ready))

\* Two runs are in progress at once and both have dispatched the task that
\* is still at the front of the queue; one of them holds it to dispatch it
\* once more.
C12_Witness ==
    \E c, d \in Ctx :
        /\ c # d /\ InRun(c) /\ InRun(d)
        /\ dlog[c] # <<>> /\ dlog[d] # <<>>
        /\ dlog[c][1] = pending_tasks[1] /\ dlog[d][1] = pending_tasks[1]
        /\ pc[c] = "run_dispatch" /\ task[c] = pending_tasks[1]

\* A detached future whose continuation, if any, is not in the queue yet.
Outstanding(f) == pc[f] \in {"pending", "cont_lock"}

\* C13: run does not wait for the continuation of an Async task it has
\* dispatched: while a detached unit is still pending, or has resolved but
\* not pushed yet, the queue is not empty, a run that waits for the free
\* lock can take it, and a run at its peek gets the front task again.
C13_RunRacesAheadOfContinuation ==
    \A c \in Ctx, f \in FutIds : Outstanding(f) =>
        /\ pending_tasks # <<>>
        /\ (pc[c] = "run_lock" /\ guard = Free) => ENABLED lock(c)
        /\ pc[c] = "run_peek" =>
              ENABLED (Peek(c) /\ pc'[c] = "run_dispatch" /\ task'[c] = get(pending_tasks, 0))

\* A run holds the front Async task to dispatch it for the third time while
\* the unit of an earlier dispatch of that task is still pending, and no
\* continuation has been yielded or pushed so far.
C13_Witness ==
    \E c \in Ctx, f \in FutIds :
        /\ InRun(c) /\ pc[c] = "run_dispatch" /\ Len(dlog[c]) >= 2
        /\ pc[f] = "pending" /\ task[f] = task[c]
        /\ execute(task[f]) # None
        /\ yields = 0 /\ Pushes("continuation") = 0

\* The strategy that matches the variant of task t.
StrategyOf(t) == IF Kind(t) = "Sync" THEN "inline" ELSE "spawn"

\* C14: run dispatches the element at index 0 and nothing else, by the
\* strategy of its variant: the task a run holds to dispatch is the front of
\* the queue, every task it has dispatched is that front task, no position
\* but the first is ever dispatched, the last dispatch of a run was inline
\* for a Sync task and a spawn for an Async task, and a detached future
\* only ever holds the unit of an Async task.
C14_FrontDispatchedByVariant ==
    /\ dispatched \subseteq {1}
    /\ \A c \in Ctx :
          /\ pc[c] = "run_dispatch" => task[c] = get(pending_tasks, 0)
          /\ InRun(c) =>
                /\ \A i \in 1..Len(dlog[c]) : dlog[c][i] = get(pending_tasks, 0)
                /\ how[c] = IF dlog[c] = <<>> THEN "none" ELSE StrategyOf(get(pending_tasks, 0))
    /\ \A f \in FutIds : pc[f] = "pending" => Kind(task[f]) = "Async" /\ task[f] = get(pending_tasks, 0)

\* A run has dispatched the Async task at the front twice, by spawn, over a
\* queue whose second element is a Sync task that has never been dispatched.
C14_Witness ==
    \E c \in Ctx :
        /\ InRun(c) /\ Len(dlog[c]) >= 2 /\ how[c] = "spawn"
        /\ Len(pending_tasks) >= 2
        /\ Kind(pending_tasks[1]) = "Async" /\ Kind(pending_tasks[2]) = "Sync"
        /\ dispatched = {1}

\* C15: run on an empty queue returns Ok at once and does nothing else: a
\* run that finds the queue empty has dispatched nothing, its peek returns
\* Ok with the lock released and leaves the queue empty, the push log and
\* every future as they are, and a run that has returned has dispatched and
\* spawned nothing.
C15_RunOnEmptyQueue ==
    /\ [][\A c \in Ctx : (pc[c] = "run_peek" /\ pending_tasks = <<>> /\ pc'[c] # "run_peek") =>
            /\ pc'[c] = "idle"
            /\ result'[c] = "Ok"
            /\ guard' = Free
            /\ pending_tasks' = <<>>
            /\ pushlog' = pushlog
            /\ dlog'[c] = <<>>
            /\ yields' = yields
            /\ \A f \in FutIds : pc'[f] = pc[f]]_vars
    /\ [](\A c \in Ctx :
            /\ (InRun(c) /\ pending_tasks = <<>>) =>
                  pc[c] \in {"run_lock", "run_peek"} /\ dlog[c] = <<>> /\ how[c] = "none"
            /\ (op[c] = "run" /\ pc[c] = "idle") =>
                  result[c] = "Ok" /\ dlog[c] = <<>> /\ how[c] = "none")

\* A run has returned Ok from a queue that has never held a task: nothing
\* was ever pushed, dispatched or spawned, and the other context's add_task
\* has failed.
C15_Witness ==
    \E c, d \in Ctx :
        /\ op[c] = "run" /\ pc[c] = "idle" /\ result[c] = "Ok"
        /\ pending_tasks = <<>> /\ pushlog = <<>> /\ dispatched = {}
        /\ \A f \in FutIds : pc[f] = "free"
        /\ op[d] = "add_task(Some)" /\ pc[d] = "idle" /\ result[d] = "Err"

\* C16: a dispatch pushes at most once, and only the continuation its unit
\* yielded: the continuations pushed or still held are no more than the
\* executions that yielded one (none, if the front task yields none), each
\* of them is what the dispatched front task's execute returns, every other
\* queued task is the argument of an add_task that returned Ok, and so the
\* queue is no longer than successful add_task calls plus executions that
\* yielded a continuation.
C16_PushesOnlyYieldedContinuation ==
    /\ Pushes("continuation") <= yields
    /\ yields < Capacity => Pushes("continuation") + Cardinality(Holders) <= yields
    /\ Len(pending_tasks) = Pushes("add_task") + Pushes("continuation")
    /\ Len(pending_tasks) <= Pushes("add_task") + yields
    /\ \A th \in Holders : task[th] # None /\ task[th] = execute(get(pending_tasks, 0))
    /\ \A i \in 1..Len(pushlog) :
          /\ pending_tasks[i] = pushlog[i][2]
          /\ pushlog[i][1] = "continuation" => pushlog[i][2] = execute(get(pending_tasks, 0))
          /\ pushlog[i][1] = "add_task" => pushlog[i][2] \in Inputs
    /\ (pending_tasks # <<>> /\ execute(get(pending_tasks, 0)) = None) =>
          yields = 0 /\ Holders = {} /\ Pushes("continuation") = 0

\* The queue holds a task from add_task and a continuation behind it, and
\* more executions have yielded a continuation than the queue shows.
C16_Witness ==
    /\ Pushes("add_task") >= 1
    /\ Pushes("continuation") >= 1
    /\ Len(pending_tasks) < Pushes("add_task") + yields
    /\ pushlog[Len(pushlog)][1] = "continuation"

\* C17: an Async unit that has not resolved causes no push: over an Async
\* front task the continuations pushed or held are no more than the units
\* that have resolved, over a Sync front task nothing is ever detached or
\* resolved, and a future whose unit is pending still holds that unit, does
\* not own the lock and so is not the thread that pushes.
C17_UnresolvedUnitNeverPushes ==
    /\ Pushes("continuation") <= resolved
    /\ resolved < Capacity => Pushes("continuation") + Cardinality(Holders \cap FutIds) <= resolved
    /\ (pending_tasks # <<>> /\ Kind(get(pending_tasks, 0)) = "Sync") =>
          resolved = 0 /\ \A f \in FutIds : pc[f] = "free"
    /\ \A f \in FutIds : pc[f] = "pending" =>
          /\ guard # f
          /\ task[f] = get(pending_tasks, 0)
    /\ guard \in Threads => pc[guard] \in {"add_push", "run_peek", "run_dispatch",
                                            "cont_lock", "cont_push"}

\* One detached unit has resolved and its continuation is in the queue,
\* while another unit of the same task is still pending and has added
\* nothing: the queue holds the tasks of add_task and that one continuation.
C17_Witness ==
    \E f \in FutIds :
        /\ pc[f] = "pending" /\ execute(task[f]) # None
        /\ resolved = 1 /\ Pushes("continuation") = 1
        /\ Len(pending_tasks) = Pushes("add_task") + 1
        /\ Holders = {}

====
